---- MODULE Spec2Model ----
(***************************************************************************)
(* A model of the CHIP-8 interpreter of src/main.rs: the Cpu with its      *)
(* Memory, Registers, Keys and Display, and the fetch/decode/execute       *)
(* cycle.  A panic of the Rust program is a fault that ends the run.       *)
(*                                                                         *)
(* Representation.  memory is the function from the addresses that hold a  *)
(* non-zero byte to that byte (every other address below MEMORY_LEN holds  *)
(* 0, as after Memory::new); display is the set of the coordinates <<x,y>> *)
(* whose pixel is 1 (every other pixel is 0, as after Display::new).       *)
(***************************************************************************)
EXTENDS Integers, Sequences, FiniteSets, TLC

\* ------------------------------------------------------------------------
\* Machine limits

\* struct Memory { memory: [u8; 0xFFF] }
MEMORY_LEN == 4095

\* stack: [u16; 16]
STACK_LEN == 16

\* keys: [bool; 16]
KEYS_LEN == 16

\* pixels: [[u8; 32]; 64]
DISPLAY_WIDTH == 64

DISPLAY_HEIGHT == 32

\* pc: 0x200 in Cpu::new, and the load address of Cpu::init
PROGRAM_START == 512

U8 == 256

U16 == 65536

Byte == 0 .. 255

\* ------------------------------------------------------------------------
\* Bounds of the model

\* The key events the input collaborator supplies in one run.
MaxKeyEvents == 1

\* The longest sprite (in rows) the draw programs use.
MaxRows == 2

\* The length, in instructions, of the call/return programs.
CallProgramLen == 4

\* The additions to I (Fx1E) the addition programs make in a row.
MaxAdds == 242

\* ------------------------------------------------------------------------
\* Bit arithmetic on bytes

\* bit k (0 = least significant) of b
Bit(b, k) == (b \div (2 ^ k)) % 2

\* a | b
bitor(a, b) ==
    LET t(k) == IF Bit(a, k) + Bit(b, k) > 0 THEN 1 ELSE 0
    IN  t(0) + 2 * t(1) + 4 * t(2) + 8 * t(3) + 16 * t(4) + 32 * t(5) + 64 * t(6) + 128 * t(7)

\* a & b
bitand(a, b) ==
    LET t(k) == Bit(a, k) * Bit(b, k)
    IN  t(0) + 2 * t(1) + 4 * t(2) + 8 * t(3) + 16 * t(4) + 32 * t(5) + 64 * t(6) + 128 * t(7)

\* a ^ b
bitxor(a, b) ==
    LET t(k) == (Bit(a, k) + Bit(b, k)) % 2
    IN  t(0) + 2 * t(1) + 4 * t(2) + 8 * t(3) + 16 * t(4) + 32 * t(5) + 64 * t(6) + 128 * t(7)

\* u16::to_be_bytes
to_be_bytes(value) == << value \div 256, value % 256 >>

\* ------------------------------------------------------------------------
\* Memory

\* Memory::new: every byte is 0
Memory_new == << >>

\* the bounds check of self.memory[location as usize]
in_memory(location) == location < MEMORY_LEN

\* Memory::read_u8, for a location in range
read_u8(mem, location) == IF location \in DOMAIN mem THEN mem[location] ELSE 0

\* Memory::read_u16 (which, like read_u8, reads one byte), for a location in range
read_u16(mem, location) == IF location \in DOMAIN mem THEN mem[location] ELSE 0

\* Memory::write_u8, for a location in range
write_u8(mem, location, value) ==
    IF value = 0
    THEN [a \in (DOMAIN mem) \ {location} |-> mem[a]]
    ELSE (location :> value) @@ mem

\* Memory::write_u16, for location and location + 1 in range
write_u16(mem, location, value) ==
    write_u8(write_u8(mem, location, to_be_bytes(value)[1]),
             location + 1, to_be_bytes(value)[2])

\* ------------------------------------------------------------------------
\* Display

\* Display::new: every pixel is 0
Display_new == {}

\* Display::clear
Display_clear(d) == {}

\* self.display.pixels[x][y], for x and y in range
pixel(d, x, y) == IF << x, y >> \in d THEN 1 ELSE 0

\* self.display.pixels[x][y] ^= value, for x and y in range
xor_pixel(d, x, y, value) ==
    IF bitxor(pixel(d, x, y), value) = 1 THEN d \cup {<< x, y >>} ELSE d \ {<< x, y >>}

\* ------------------------------------------------------------------------
\* Keys

\* Keys::new
Keys_new == [k \in 0 .. (KEYS_LEN - 1) |-> FALSE]

\* Keys::is_pressed, for a key in range
is_pressed(ks, key) == ks[key]

\* ------------------------------------------------------------------------
\* Registers

\* #[derive(Default)] struct Registers
Registers_default == [r \in 0 .. 15 |-> 0]

\* the index of registers.vf
VF == 15

\* ------------------------------------------------------------------------
\* The state

VARIABLES
    i,                  \* Cpu.i
    pc,                 \* Cpu.pc
    stack,              \* Cpu.stack
    sp,                 \* Cpu.sp
    delay,              \* Cpu.delay
    sound,              \* Cpu.sound
    registers,          \* Cpu.registers
    memory,             \* Cpu.memory
    keys,               \* Cpu.keys
    waiting_for_input,  \* Cpu.waiting_for_input
    display,            \* Cpu.display
    build,              \* "debug" (overflow checks on) or "release" (wrapping)
    buffer,             \* main's buffer: the bytes of the program file
    fault,              \* "none", or the panic that ended the run
    fault_addr,         \* the memory address whose access panicked, or -1
    opcode,             \* the instruction the last cycle fetched, or -1
    slot,               \* the stack slot the last cycle read or wrote, or -1
    pre,                \* the Cpu as the last cycle found it
    pre2,               \* the Cpu as the cycle before the last found it
    calls,              \* the return addresses of the calls not yet returned from
    key_events          \* the key events supplied so far

vars == << i, pc, stack, sp, delay, sound, registers, memory, keys, waiting_for_input,
           display, build, buffer, fault, fault_addr, opcode, slot, pre, pre2, calls,
           key_events >>

\* The Cpu as a record, with the outcome of the cycle that is running.
cpu == [ i |-> i, pc |-> pc, stack |-> stack, sp |-> sp, delay |-> delay, sound |-> sound,
         registers |-> registers, memory |-> memory, keys |-> keys,
         waiting_for_input |-> waiting_for_input, display |-> display,
         fault |-> "none", fault_addr |-> -1, slot |-> -1 ]

\* panic!(..), a failed overflow check or a failed bounds check: the run ends
panic(c, message) == [c EXCEPT !.fault = message]

\* the failed bounds check of self.memory[location as usize]
memory_panic(c, location) ==
    [c EXCEPT !.fault = "memory index out of bounds", !.fault_addr = location]

\* ------------------------------------------------------------------------
\* decode_and_execute, one operator per match arm.  c is the Cpu after
\* cycle's self.pc += 2.

\* 0x00E0
op_00E0(c) == [c EXCEPT !.display = Display_clear(c.display)]

\* 0x00EE, were it to return to the oldest call instead of the most recent
op_00EE_oldest(c) ==
    IF c.sp = 0
    THEN IF build = "debug"
         THEN panic(c, "attempt to subtract with overflow")
         ELSE panic(c, "stack index out of bounds")
    ELSE [c EXCEPT !.pc = c.stack[0], !.sp = c.sp - 1, !.slot = 0]

\* 0x00EE, were a return on an empty stack ignored
op_00EE_ignored(c) ==
    IF c.sp = 0
    THEN c
    ELSE [c EXCEPT !.pc = c.stack[c.sp - 1], !.sp = c.sp - 1, !.slot = c.sp - 1]

\* 0x00EE: self.pc = self.stack[self.sp as usize - 1]; self.sp -= 1
op_00EE(c) ==
    IF c.sp = 0
    THEN IF build = "debug"
         THEN panic(c, "attempt to subtract with overflow")
         ELSE panic(c, "stack index out of bounds")
    ELSE IF c.sp - 1 >= STACK_LEN
    THEN panic(c, "stack index out of bounds")
    ELSE [c EXCEPT !.pc = c.stack[c.sp - 1], !.sp = c.sp - 1, !.slot = c.sp - 1]

\* 0x1000..=0x1FFF, were the pc += 2 of the cycle to follow the jump
op_1nnn_advanced(c, op) == [c EXCEPT !.pc = (op % 4096) + 2]

\* 0x1000..=0x1FFF: self.pc = opcode & 0x0FFF
op_1nnn(c, op) == [c EXCEPT !.pc = op % 4096]

\* 0x2000..=0x2FFF, were the store into the stack not bounds-checked
op_2nnn_unchecked(c, nnn) ==
    LET c1 == [c EXCEPT !.sp = c.sp + 1]
    IN  [c1 EXCEPT !.stack = [s \in (DOMAIN c.stack) \cup {c1.sp - 1} |->
                                 IF s = c1.sp - 1 THEN c.pc ELSE c.stack[s]],
                   !.pc = nnn, !.slot = c1.sp - 1]

\* 0x2000..=0x2FFF: self.sp += 1; self.stack[self.sp as usize - 1] = self.pc; self.pc = nnn
op_2nnn(c, nnn) ==
    LET c1 == [c EXCEPT !.sp = c.sp + 1]
    IN  IF c1.sp - 1 >= STACK_LEN
        THEN panic(c1, "stack index out of bounds")
        ELSE [c1 EXCEPT !.stack[c1.sp - 1] = c.pc, !.pc = nnn, !.slot = c1.sp - 1]

\* 0x3000..=0x3FFF
op_3xkk(c, x, kk) == IF c.registers[x] = kk THEN [c EXCEPT !.pc = c.pc + 2] ELSE c

\* 0x4000..=0x4FFF
op_4xkk(c, x, kk) == IF c.registers[x] # kk THEN [c EXCEPT !.pc = c.pc + 2] ELSE c

\* 0x5000..=0x5FF0
op_5xy0(c, x, y) ==
    IF c.registers[x] = c.registers[y] THEN [c EXCEPT !.pc = c.pc + 2] ELSE c

\* 0x6000..=0x6FFF
op_6xkk(c, x, kk) == [c EXCEPT !.registers[x] = kk]

\* 0x7000..=0x7FFF: the sum is taken in u16 and cast to u8
op_7xkk(c, x, kk) == [c EXCEPT !.registers[x] = (c.registers[x] + kk) % U8]

\* 0x8000..=0x8FFE, operation 0
op_8xy0(c, x, y) == [c EXCEPT !.registers[x] = c.registers[y]]

\* operation 1
op_8xy1(c, x, y) == [c EXCEPT !.registers[x] = bitor(c.registers[x], c.registers[y])]

\* operation 2
op_8xy2(c, x, y) == [c EXCEPT !.registers[x] = bitand(c.registers[x], c.registers[y])]

\* operation 3
op_8xy3(c, x, y) == [c EXCEPT !.registers[x] = bitxor(c.registers[x], c.registers[y])]

\* operation 4, were vf written first and registers[x] after it
op_8xy4_flag_first(c, x, y) ==
    LET value == c.registers[x] + c.registers[y]
        r1 == [c.registers EXCEPT ![VF] = IF value > 255 THEN 1 ELSE 0]
    IN  [c EXCEPT !.registers = [r1 EXCEPT ![x] = value % U8]]

\* operation 4: registers[x] is written first, then vf
op_8xy4(c, x, y) ==
    LET value == c.registers[x] + c.registers[y]
        r1 == [c.registers EXCEPT ![x] = value % U8]
    IN  [c EXCEPT !.registers = [r1 EXCEPT ![VF] = IF value > 255 THEN 1 ELSE 0]]

\* operation 5: vf is written first, then registers[x] from the registers as they are then
op_8xy5(c, x, y) ==
    LET r1 == [c.registers EXCEPT ![VF] = IF c.registers[x] > c.registers[y] THEN 1 ELSE 0]
    IN  [c EXCEPT !.registers = [r1 EXCEPT ![x] = (r1[x] - r1[y]) % U8]]

\* operation 6, were it to shift registers[y] into registers[x]
op_8xy6_from_vy(c, x, y) ==
    LET r1 == [c.registers EXCEPT ![VF] = IF bitand(c.registers[y], 1) = 1 THEN 1 ELSE 0]
    IN  [c EXCEPT !.registers = [r1 EXCEPT ![x] = c.registers[y] \div 2]]

\* operation 6
op_8xy6(c, x, y) ==
    LET r1 == [c.registers EXCEPT ![VF] = IF bitand(c.registers[x], 1) = 1 THEN 1 ELSE 0]
    IN  [c EXCEPT !.registers = [r1 EXCEPT ![x] = r1[x] \div 2]]

\* operation 7: registers[x] is written first, then vf from the registers as they are then
op_8xy7(c, x, y) ==
    LET r1 == [c.registers EXCEPT ![x] = (c.registers[y] - c.registers[x]) % U8]
    IN  [c EXCEPT !.registers = [r1 EXCEPT ![VF] = IF r1[y] > r1[x] THEN 1 ELSE 0]]

\* operation 0xE
op_8xyE(c, x, y) ==
    LET r1 == [c.registers EXCEPT ![VF] = IF bitand(c.registers[x], 128) # 0 THEN 1 ELSE 0]
    IN  [c EXCEPT !.registers = [r1 EXCEPT ![x] = (r1[x] * 2) % U8]]

\* 0x8000..=0x8FFE: match operation { .. _ => {} }
op_8xyn(c, x, y, operation) ==
    CASE operation = 0 -> op_8xy0(c, x, y)
      [] operation = 1 -> op_8xy1(c, x, y)
      [] operation = 2 -> op_8xy2(c, x, y)
      [] operation = 3 -> op_8xy3(c, x, y)
      [] operation = 4 -> op_8xy4(c, x, y)
      [] operation = 5 -> op_8xy5(c, x, y)
      [] operation = 6 -> op_8xy6(c, x, y)
      [] operation = 7 -> op_8xy7(c, x, y)
      [] operation = 14 -> op_8xyE(c, x, y)
      [] OTHER -> c

\* 0x9000..=0x9FF0
op_9xy0(c, x, y) ==
    IF c.registers[x] # c.registers[y] THEN [c EXCEPT !.pc = c.pc + 2] ELSE c

\* 0xA000..=0xAFFF
op_Annn(c, nnn) == [c EXCEPT !.i = nnn]

\* 0xB000..=0xBFFF
op_Bnnn(c, nnn) == [c EXCEPT !.pc = nnn + c.registers[0]]

\* random.gen_range(low, high): high is exclusive
gen_range(low, high) == low .. (high - 1)

\* 0xC000..=0xCFFF
op_Cxkk(c, x, kk, random) == [c EXCEPT !.registers[x] = bitand(random, kk)]

\* 0xD000..=0xDFFF, the inner loop `for index in 0..8` from bit `index` on: it
\* ends after bit 7, or breaks once sprite_x has passed 63
RECURSIVE draw_bits(_, _, _, _, _)
draw_bits(c, byte, index, sprite_x, sprite_y) ==
    IF index >= 8
    THEN c
    ELSE IF sprite_x >= DISPLAY_WIDTH
    THEN panic(c, "pixels index out of bounds")
    ELSE LET value == Bit(byte, 7 - index)
             hit == c.registers[VF] = 0 /\ value = 1
                    /\ pixel(c.display, sprite_x, sprite_y) = 1
             c1 == IF hit THEN [c EXCEPT !.registers[VF] = 1] ELSE c
             c2 == [c1 EXCEPT !.display = xor_pixel(c1.display, sprite_x, sprite_y, value)]
         IN  IF sprite_x + 1 > 63
             THEN c2
             ELSE draw_bits(c2, byte, index + 1, sprite_x + 1, sprite_y)

\* the outer loop `for i in self.i..(self.i + n)` from address `location` on: it
\* ends at `end`, or breaks once sprite_y has passed 31
RECURSIVE draw_rows(_, _, _, _, _, _)
draw_rows(c, x, location, end, sprite_x, sprite_y) ==
    IF location >= end
    THEN c
    ELSE IF ~in_memory(location)
    THEN memory_panic(c, location)
    ELSE LET c1 == draw_bits(c, read_u8(c.memory, location), 0, sprite_x, sprite_y)
         IN  IF c1.fault # "none"
             THEN c1
             ELSE IF sprite_y + 1 > 31
             THEN c1
             ELSE draw_rows(c1, x, location + 1, end, c1.registers[x], sprite_y + 1)

\* 0xD000..=0xDFFF, were vf not reset before the sprite is drawn
op_Dxyn_no_reset(c, x, y, n) ==
    LET sprite_x == c.registers[x] % 64
        sprite_y == c.registers[y] % 32
    IN  IF c.i + n >= U16
        THEN IF build = "debug"
             THEN panic(c, "attempt to add with overflow")
             ELSE draw_rows(c, x, c.i, (c.i + n) % U16, sprite_x, sprite_y)
        ELSE draw_rows(c, x, c.i, c.i + n, sprite_x, sprite_y)

\* 0xD000..=0xDFFF
op_Dxyn(c, x, y, n) ==
    LET c1 == [c EXCEPT !.registers[VF] = 0]
        sprite_x == c1.registers[x] % 64
        sprite_y == c1.registers[y] % 32
    IN  IF c1.i + n >= U16
        THEN IF build = "debug"
             THEN panic(c1, "attempt to add with overflow")
             ELSE draw_rows(c1, x, c1.i, (c1.i + n) % U16, sprite_x, sprite_y)
        ELSE draw_rows(c1, x, c1.i, c1.i + n, sprite_x, sprite_y)

\* operation 0x9E, were it to skip when the key is not pressed
op_Ex9E_inverted(c, x) ==
    IF c.registers[x] >= KEYS_LEN
    THEN panic(c, "keys index out of bounds")
    ELSE IF ~is_pressed(c.keys, c.registers[x]) THEN [c EXCEPT !.pc = c.pc + 2] ELSE c

\* 0xE000..=0xEFFF, operation 0x9E
op_Ex9E(c, x) ==
    IF c.registers[x] >= KEYS_LEN
    THEN panic(c, "keys index out of bounds")
    ELSE IF is_pressed(c.keys, c.registers[x]) THEN [c EXCEPT !.pc = c.pc + 2] ELSE c

\* operation 0xA1, were the key taken from the low 4 bits of registers[x]
op_ExA1_masked(c, x) ==
    IF ~is_pressed(c.keys, c.registers[x] % KEYS_LEN) THEN [c EXCEPT !.pc = c.pc + 2] ELSE c

\* operation 0xA1
op_ExA1(c, x) ==
    IF c.registers[x] >= KEYS_LEN
    THEN panic(c, "keys index out of bounds")
    ELSE IF ~is_pressed(c.keys, c.registers[x]) THEN [c EXCEPT !.pc = c.pc + 2] ELSE c

\* 0xE000..=0xEFFF: match operation { .. _ => {} }
op_Exkk(c, x, kk) ==
    CASE kk = 158 -> op_Ex9E(c, x)
      [] kk = 161 -> op_ExA1(c, x)
      [] OTHER -> c

\* operation 0x07, were the read to reset the delay timer
op_Fx07_consumes(c, x) == [c EXCEPT !.registers[x] = c.delay, !.delay = 0]

\* 0xF007..=0xFF65, operation 0x07
op_Fx07(c, x) == [c EXCEPT !.registers[x] = c.delay]

\* operation 0x0A
op_Fx0A(c, x) == [c EXCEPT !.waiting_for_input = TRUE]

\* operation 0x15
op_Fx15(c, x) == [c EXCEPT !.delay = c.registers[x]]

\* operation 0x18
op_Fx18(c, x) == [c EXCEPT !.sound = c.registers[x]]

\* operation 0x1E: self.i += self.registers[x] as u16
op_Fx1E(c, x) ==
    IF c.i + c.registers[x] >= U16
    THEN IF build = "debug"
         THEN panic(c, "attempt to add with overflow")
         ELSE [c EXCEPT !.i = (c.i + c.registers[x]) % U16]
    ELSE [c EXCEPT !.i = c.i + c.registers[x]]

\* operation 0x29
op_Fx29(c, x) == [c EXCEPT !.i = c.registers[x] * 5]

\* operation 0x33: three write_u8, each bounds-checked in turn
op_Fx33(c, x) ==
    LET value == c.registers[x]
        c1 == [c EXCEPT !.memory = write_u8(c.memory, c.i, value \div 100)]
        c2 == [c1 EXCEPT !.memory = write_u8(c1.memory, c.i + 1, (value % 100) \div 10)]
        c3 == [c2 EXCEPT !.memory = write_u8(c2.memory, c.i + 2, value % 10)]
    IN  IF ~in_memory(c.i) THEN memory_panic(c, c.i)
        ELSE IF ~in_memory(c.i + 1) THEN memory_panic(c1, c.i + 1)
        ELSE IF ~in_memory(c.i + 2) THEN memory_panic(c2, c.i + 2)
        ELSE c3

\* operation 0x55, the loop `for register in 0..(x + 1)` from `register` on
RECURSIVE store_registers(_, _, _)
store_registers(c, x, register) ==
    IF register >= x + 1
    THEN c
    ELSE IF ~in_memory(c.i + register)
    THEN memory_panic(c, c.i + register)
    ELSE store_registers(
             [c EXCEPT !.memory = write_u8(c.memory, c.i + register, c.registers[register])],
             x, register + 1)

\* operation 0x55
op_Fx55(c, x) == store_registers(c, x, 0)

\* operation 0x65, the loop `for register in 0..(x + 1)` from `register` on
RECURSIVE load_registers(_, _, _)
load_registers(c, x, register) ==
    IF register >= x + 1
    THEN c
    ELSE IF ~in_memory(c.i + register)
    THEN memory_panic(c, c.i + register)
    ELSE load_registers(
             [c EXCEPT !.registers[register] = read_u8(c.memory, c.i + register)],
             x, register + 1)

\* operation 0x65
op_Fx65(c, x) == load_registers(c, x, 0)

\* 0xF007..=0xFF65: match operation { .. _ => {} }
op_Fxkk(c, x, operation) ==
    CASE operation = 7 -> op_Fx07(c, x)
      [] operation = 10 -> op_Fx0A(c, x)
      [] operation = 21 -> op_Fx15(c, x)
      [] operation = 24 -> op_Fx18(c, x)
      [] operation = 30 -> op_Fx1E(c, x)
      [] operation = 41 -> op_Fx29(c, x)
      [] operation = 51 -> op_Fx33(c, x)
      [] operation = 85 -> op_Fx55(c, x)
      [] operation = 101 -> op_Fx65(c, x)
      [] OTHER -> c

\* the arm `_ => panic!("unsupported opcode")`
op_unsupported(c) == panic(c, "unsupported opcode")

\* Cpu::decode_and_execute: the first arm whose pattern the opcode matches
decode_and_execute(c, op, random) ==
    LET x == (op \div 256) % 16
        y == (op \div 16) % 16
        kk == op % 256
        nnn == op % 4096
        n == op % 16
    IN  CASE op = 224 -> op_00E0(c)
          [] op = 238 -> op_00EE(c)
          [] op \in 4096 .. 8191 -> op_1nnn(c, op)
          [] op \in 8192 .. 12287 -> op_2nnn(c, nnn)
          [] op \in 12288 .. 16383 -> op_3xkk(c, x, kk)
          [] op \in 16384 .. 20479 -> op_4xkk(c, x, kk)
          [] op \in 20480 .. 24560 -> op_5xy0(c, x, y)
          [] op \in 24576 .. 28671 -> op_6xkk(c, x, kk)
          [] op \in 28672 .. 32767 -> op_7xkk(c, x, kk)
          [] op \in 32768 .. 36862 -> op_8xyn(c, x, y, n)
          [] op \in 36864 .. 40944 -> op_9xy0(c, x, y)
          [] op \in 40960 .. 45055 -> op_Annn(c, nnn)
          [] op \in 45056 .. 49151 -> op_Bnnn(c, nnn)
          [] op \in 49152 .. 53247 -> op_Cxkk(c, x, kk, random)
          [] op \in 53248 .. 57343 -> op_Dxyn(c, x, y, n)
          [] op \in 57344 .. 61439 -> op_Exkk(c, x, kk)
          [] op \in 61447 .. 65381 -> op_Fxkk(c, x, kk)
          [] OTHER -> op_unsupported(c)

\* Cpu::fetch, for location and location + 1 in range
fetch(mem, location) == read_u16(mem, location) * 256 + read_u16(mem, location + 1)

\* the values `random` can take in the cycle that executes op
random_values(op) == IF op \in 49152 .. 53247 THEN gen_range(0, 255) ELSE {0}

\* ------------------------------------------------------------------------
\* Construction

\* let font: [u8; 80] of Cpu::init
font ==
    << 240, 144, 144, 144, 240,
       32, 96, 32, 32, 112,
       240, 16, 240, 128, 240,
       240, 16, 240, 16, 240,
       144, 144, 240, 16, 16,
       240, 128, 240, 16, 240,
       240, 128, 240, 144, 240,
       240, 16, 32, 64, 64,
       240, 144, 240, 144, 240,
       240, 144, 240, 16, 240,
       240, 144, 240, 144, 144,
       224, 144, 224, 144, 224,
       240, 128, 128, 128, 240,
       224, 144, 144, 144, 224,
       240, 128, 240, 128, 240,
       240, 128, 240, 128, 128 >>

\* the byte at location a once a loop of Cpu::init has run: write_u8(start + k, bytes[k])
\* for every k
written(mem, start, bytes, a) ==
    IF a - start \in 0 .. (Len(bytes) - 1) THEN bytes[a - start + 1] ELSE read_u8(mem, a)

\* a loop of Cpu::init, for bytes that fit
write_all(mem, start, bytes) ==
    LET locations == (DOMAIN mem) \cup (start .. (start + Len(bytes) - 1))
    IN  [a \in {l \in locations : written(mem, start, bytes, l) # 0} |->
            written(mem, start, bytes, a)]

\* Cpu::init panics when a byte of the program falls past the memory: write_u8 at
\* 0x200 + i fails its bounds check
init_panics(bytes) == ~in_memory(PROGRAM_START + Len(bytes) - 1)

\* the bytes of the program Cpu::init writes: all of them, or those before the panic
init_written(bytes) ==
    IF init_panics(bytes) THEN SubSeq(bytes, 1, MEMORY_LEN - PROGRAM_START) ELSE bytes

\* Cpu::init: the font from 0, then the program from 0x200
init(mem, bytes) == write_all(write_all(mem, 0, font), PROGRAM_START, init_written(bytes))

\* The bytes of a program given as 16-bit words, each stored big-endian.
program_bytes(words) ==
    [ k \in 1 .. (2 * Len(words)) |-> to_be_bytes(words[(k + 1) \div 2])[2 - (k % 2)] ]

\* The two ways the program is built.
Builds == {"debug", "release"}

\* the fields of the Cpu, the calls not returned from and the instruction of the
\* cycle before, as a cycle finds them
snapshot ==
    [ i |-> i, pc |-> pc, stack |-> stack, sp |-> sp, delay |-> delay, sound |-> sound,
      registers |-> registers, memory |-> memory, keys |-> keys,
      waiting_for_input |-> waiting_for_input, display |-> display, calls |-> calls,
      opcode |-> opcode ]

\* main: Cpu::new(Memory::new(), Display::new()) and cpu.init(buffer), for a
\* program file that holds one of `files`
InitFrom(files) ==
    /\ build \in Builds
    /\ buffer \in files
    /\ memory = init(Memory_new, buffer)
    /\ i = 0
    /\ pc = PROGRAM_START
    /\ stack = [s \in 0 .. (STACK_LEN - 1) |-> 0]
    /\ sp = 0
    /\ delay = 0
    /\ sound = 0
    /\ registers = Registers_default
    /\ keys = Keys_new
    /\ waiting_for_input = FALSE
    /\ display = Display_new
    /\ fault = IF init_panics(buffer) THEN "memory index out of bounds" ELSE "none"
    /\ fault_addr = IF init_panics(buffer) THEN MEMORY_LEN ELSE -1
    /\ opcode = -1
    /\ slot = -1
    /\ calls = << >>
    /\ key_events = 0
    /\ pre = [ i |-> 0, pc |-> PROGRAM_START, stack |-> [s \in 0 .. (STACK_LEN - 1) |-> 0],
               sp |-> 0, delay |-> 0, sound |-> 0, registers |-> Registers_default,
               memory |-> memory, keys |-> Keys_new, waiting_for_input |-> FALSE,
               display |-> Display_new, calls |-> << >>, opcode |-> -1 ]
    /\ pre2 = pre

\* main, for a program file that holds one of `programs`, given as 16-bit words
InitWith(programs) == InitFrom({ program_bytes(words) : words \in programs })

\* ------------------------------------------------------------------------
\* The steps

\* The Cpu and the outcome of a cycle become the next state.
Becomes(c, op) ==
    /\ i' = c.i
    /\ pc' = c.pc
    /\ stack' = c.stack
    /\ sp' = c.sp
    /\ delay' = c.delay
    /\ sound' = c.sound
    /\ registers' = c.registers
    /\ memory' = c.memory
    /\ keys' = c.keys
    /\ waiting_for_input' = c.waiting_for_input
    /\ display' = c.display
    /\ fault' = c.fault
    /\ fault_addr' = c.fault_addr
    /\ slot' = c.slot
    /\ opcode' = op
    /\ pre' = snapshot
    /\ pre2' = pre
    /\ calls' = IF c.fault = "none" /\ op \in 8192 .. 12287
                THEN Append(calls, pc + 2)
                ELSE IF c.fault = "none" /\ op = 238
                THEN SubSeq(calls, 1, Len(calls) - 1)
                ELSE calls
    /\ UNCHANGED << build, buffer, key_events >>

\* Cpu::cycle, called by EventHandler::update: fetch, self.pc += 2, decode_and_execute.
\* A panic ends the run, so that no cycle follows a fault.
cycle ==
    /\ fault = "none"
    /\ IF ~in_memory(pc)
       THEN Becomes(memory_panic(cpu, pc), -1)
       ELSE IF ~in_memory(pc + 1)
       THEN Becomes(memory_panic(cpu, pc + 1), -1)
       ELSE LET op == fetch(memory, pc)
            IN  \E random \in random_values(op) :
                    Becomes(decode_and_execute([cpu EXCEPT !.pc = pc + 2], op, random), op)

\* The keys the input collaborator presses and releases.
KeyPalette == {1}

\* The input collaborator presses or releases a key between two cycles.
key_event ==
    /\ fault = "none"
    /\ key_events < MaxKeyEvents
    /\ \E key \in KeyPalette :
           keys' = [keys EXCEPT ![key] = ~keys[key]]
    /\ key_events' = key_events + 1
    /\ UNCHANGED << i, pc, stack, sp, delay, sound, registers, memory, waiting_for_input,
                    display, build, buffer, fault, fault_addr, opcode, slot, pre, pre2, calls >>

Next == cycle \/ key_event

\* ------------------------------------------------------------------------
\* Programs

\* 6xkk
LD(x, kk) == 24576 + 256 * x + kk

\* 7xkk
ADD(x, kk) == 28672 + 256 * x + kk

\* Annn
LDI(nnn) == 40960 + nnn

\* Dxyn
DRW(x, y, n) == 53248 + 256 * x + 16 * y + n

\* 3xkk
SE(x, kk) == 12288 + 256 * x + kk

\* Fx55
STORE(x) == 61440 + 256 * x + 85

\* Fx65
LOAD(x) == 61440 + 256 * x + 101

\* The values the programs load into V1 and V2: equal or not, a key or no key.
RegisterPairs == { << 68, 68 >>, << 1, 68 >>, << 1, 1 >> }

\* Instruction words that are no opcode of the table: 0000, 0123, 00E1, 5121, 512F,
\* 5FF1, 8128, 812F, 8FFF, 9121, 9FF1, E100, E19D, E1FF, F100, F006, F10B, FF66, FFFF.
UnlistedOps ==
    { 0, 291, 225, 20769, 20783, 24561, 33064, 33071, 36863, 37153, 40945,
      57600, 57757, 57855, 61696, 61446, 61707, 65382, 65535 }

\* Instructions of the table: clear (00E0) and return (00EE), the skips on V1, V2 and
\* the keys (3144, 3101, 4144, 4101, 5120, 9120, E19E, E1A1, E29E, E2A1), the key wait
\* (F10A), jumps (1FFE, 1FFC) and loads of I (AFFF, AFFE, AFFD) to the end of memory.
ListedOps ==
    { 224, 238, SE(1, 68), SE(1, 1), 16708, 16641, 20768, 37152, 57758, 57761,
      58014, 58017, 61706, 8190, 8188, LDI(4095), LDI(4094), LDI(4093) }

\* The instruction that follows: 6005, 7101, F155, F165, 00E0.
FollowOps == { LD(0, 5), ADD(1, 1), STORE(1), LOAD(1), 224 }

\* Programs that load V1 and V2 and then run two instructions.
Programs ==
    { << LD(1, r[1]), LD(2, r[2]), op1, op2 >> :
        r \in RegisterPairs, op1 \in UnlistedOps \cup ListedOps, op2 \in FollowOps }

Init == InitWith(Programs)

Spec == Init /\ [][Next]_vars

\* Draw programs: load Vx and Vy, point I at a sprite and draw it twice, at the same
\* place or one pixel to the right.  The sprite data is at 0x210.

\* The registers Dxyn names: plain ones, x = F and y = F.
DrawRegisters == { << 0, 1 >>, << 15, 1 >>, << 0, 15 >> }

\* Vx: inside the display, at its right edge (60, and 255 = 63 mod 64) and past it.
DrawXs == { 2, 60, 64, 255 }

\* Vy: inside the display, at its bottom edge and past it.
DrawYs == { 0, 31, 33 }

\* Sprite data, two rows to the word: FF 81 01 80, 01 00 00 00 and 80 C0 E0 00.
Sprites == { << 65409, 384 >>, << 256, 0 >>, << 32960, 57344 >> }

\* I and the data at 0x210: I at the data, at the font glyph 0 and at the end of memory.
SpriteChoices ==
    { << 528, sprite >> : sprite \in Sprites } \cup { << 0, << 0, 0 >> >>, << 4094, << 0, 0 >> >> }

DrawTails(x, y, n) ==
    { << DRW(x, y, n), DRW(x, y, n), 0 >>, << DRW(x, y, n), ADD(x, 1), DRW(x, y, n) >> }

DrawProgramsOn(x, y) ==
    { << LD(x, vx), LD(y, vy), LDI(choice[1]) >> \o tail \o << 0, 0 >> \o choice[2] :
        vx \in DrawXs, vy \in DrawYs, choice \in SpriteChoices,
        tail \in UNION { DrawTails(x, y, n) : n \in 0 .. MaxRows } }

DrawPrograms == UNION { DrawProgramsOn(r[1], r[2]) : r \in DrawRegisters }

InitDraw == InitWith(DrawPrograms)

SpecDraw == InitDraw /\ [][Next]_vars

\* Call/return programs: calls into the program itself (2200, 2204, 2206) and
\* returns (00EE).
CallOps == {8704, 8708, 8710, 238}

CallPrograms == [1 .. CallProgramLen -> CallOps]

InitCall == InitWith(CallPrograms)

SpecCall == InitCall /\ [][Next]_vars

\* ------------------------------------------------------------------------
\* Calls and returns

Is2nnn(op) == op \in 8192 .. 12287

Is00EE(op) == op = 238

\* C1: a 2nnn fetched at address a with depth d < 16 pushes a + 2, sets pc = nnn and
\* the depth to d + 1; a 00EE sets pc to the address that follows the most recent
\* 2nnn not yet returned from and takes the depth back by one, so that the depth is
\* always the number of calls not yet returned from.
CallReturnLIFO ==
    /\ (Is2nnn(opcode) /\ pre.sp < 16) =>
           /\ fault = "none"
           /\ pc = opcode % 4096
           /\ sp = pre.sp + 1
           /\ stack[pre.sp] = pre.pc + 2
    /\ (Is00EE(opcode) /\ pre.calls # << >>) =>
           /\ fault = "none"
           /\ pc = pre.calls[Len(pre.calls)]
           /\ sp = pre.sp - 1
    /\ fault = "none" => sp = Len(calls)

\* a return from a call nested in another call that has a different return address
NestedReturn ==
    /\ Is00EE(opcode)
    /\ fault = "none"
    /\ Len(pre.calls) >= 2
    /\ pre.calls[Len(pre.calls)] # pre.calls[Len(pre.calls) - 1]
    /\ pc = pre.calls[Len(pre.calls)]

\* C2: as long as the run has not faulted the stack pointer is in 0..16, the stack
\* has its 16 slots and the slot the last cycle read or wrote is one of them.
StackPointerInRange ==
    fault = "none" =>
        /\ sp \in 0 .. 16
        /\ DOMAIN stack = 0 .. 15
        /\ slot \in -1 .. 15

\* the stack is full, after a call that wrote the last slot
StackFull == fault = "none" /\ sp = 16 /\ slot = 15 /\ Is2nnn(opcode)

\* C3: a 00EE on an empty stack and a 2nnn on a full stack end in a fault.
StackFaultIsFatal ==
    /\ (Is00EE(opcode) /\ pre.sp = 0) => fault # "none"
    /\ (Is2nnn(opcode) /\ pre.sp = 16) => fault # "none"

\* a call on a full stack has faulted
CallOnFullStack == Is2nnn(opcode) /\ pre.sp = 16 /\ fault # "none"

\* ------------------------------------------------------------------------
\* Decoding

FieldX(op) == (op \div 256) % 16

FieldY(op) == (op \div 16) % 16

FieldKK(op) == op % 256

FieldN(op) == op % 16

Family(op) == op \div 4096

\* The instruction words that are none of the opcodes of the table of section 4.4.
IsUnlisted(op) ==
    \/ Family(op) = 0 /\ op \notin {224, 238}
    \/ Family(op) \in {5, 9} /\ FieldN(op) # 0
    \/ Family(op) = 8 /\ FieldN(op) \in {8, 9, 10, 11, 12, 13, 15}
    \/ Family(op) = 14 /\ FieldKK(op) \notin {158, 161}
    \/ Family(op) = 15 /\ FieldKK(op) \notin {7, 10, 21, 24, 30, 41, 51, 85, 101}

\* C4: every instruction word that is not an opcode of the table ends the cycle that
\* fetched it in the unsupported-instruction fault.
UnlistedOpcodeFaults == (opcode # -1 /\ IsUnlisted(opcode)) => fault = "unsupported opcode"

\* C5: memory holds 4096 bytes, so that an access faults only at an address >= 4096
\* (and the instruction at 0xFFE..0xFFF can be fetched).
MemoryHolds4096 == fault = "memory index out of bounds" => fault_addr >= 4096

\* ------------------------------------------------------------------------
\* Keys

IsFx0A(op) == Family(op) = 15 /\ FieldKK(op) = 10

\* C9: Fx0A sets waiting_for_input, and a cycle that finds the flag set while no key
\* event has been supplied leaves pc, registers, I, stack, memory and display alone.
KeyWaitBlocks ==
    /\ (IsFx0A(opcode) /\ fault = "none") => waiting_for_input
    /\ (pre.waiting_for_input /\ key_events = 0) =>
           /\ pc = pre.pc
           /\ registers = pre.registers
           /\ i = pre.i
           /\ stack = pre.stack
           /\ sp = pre.sp
           /\ memory = pre.memory
           /\ display = pre.display

\* The condition of a skip opcode, on the registers and keys the cycle found.
SkipCondition(op) ==
    LET vx == pre.registers[FieldX(op)]
        vy == pre.registers[FieldY(op)]
    IN  CASE Family(op) = 3 -> vx = FieldKK(op)
          [] Family(op) = 4 -> vx # FieldKK(op)
          [] Family(op) = 5 -> vx = vy
          [] Family(op) = 9 -> vx # vy
          [] Family(op) = 14 /\ FieldKK(op) = 158 -> pre.keys[vx]
          [] Family(op) = 14 /\ FieldKK(op) = 161 -> ~pre.keys[vx]

\* 3xkk, 4xkk, 5xy0, 9xy0, and Ex9E and ExA1 with Vx in 0..15
IsSkip(op) ==
    \/ Family(op) \in {3, 4}
    \/ Family(op) \in {5, 9} /\ FieldN(op) = 0
    \/ /\ Family(op) = 14
       /\ FieldKK(op) \in {158, 161}
       /\ pre.registers[FieldX(op)] \in 0 .. 15

\* C10: a skip opcode fetched at address a leaves pc = a + 4 when its condition holds
\* and pc = a + 2 when it does not, and changes no register.
SkipAdvance ==
    (opcode # -1 /\ IsSkip(opcode)) =>
        /\ fault = "none"
        /\ pc = pre.pc + (IF SkipCondition(opcode) THEN 4 ELSE 2)
        /\ registers = pre.registers

\* E19E has skipped on a pressed key
SkippedOnPressedKey ==
    /\ opcode = 57758
    /\ pre.registers[1] = 1
    /\ pre.keys[1]
    /\ fault = "none"
    /\ pc = pre.pc + 4

\* ------------------------------------------------------------------------
\* Drawing

IsDxyn(op) == Family(op) = 13

\* The set of the pixels in s or in t and not in both: the XOR of two displays.
SymDiff(s, t) == (s \ t) \cup (t \ s)

\* The pixels the sprite of n rows at sprite_i covers when drawn at (vx, vy) with
\* wrap-around: the bit at row r and column c goes to ((vx + c) mod 64, (vy + r) mod 32).
WrappedSprite(mem, sprite_i, n, vx, vy) ==
    { << (vx + col) % 64, (vy + row) % 32 >> :
        << row, col >> \in { rc \in (0 .. (n - 1)) \X (0 .. 7) :
                                Bit(read_u8(mem, sprite_i + rc[1]), 7 - rc[2]) = 1 } }

\* C6: Dxyn with n >= 1 (and the sprite inside memory) does not fault and XORs the
\* sprite into the display with wrap-around at both edges, from the Vx and Vy the
\* cycle found; every other pixel is unchanged.
DrawWraps ==
    (opcode # -1 /\ IsDxyn(opcode) /\ FieldN(opcode) >= 1
        /\ pre.i + FieldN(opcode) <= MEMORY_LEN) =>
        /\ fault = "none"
        /\ display = SymDiff(pre.display,
                             WrappedSprite(pre.memory, pre.i, FieldN(opcode),
                                           pre.registers[FieldX(opcode)],
                                           pre.registers[FieldY(opcode)]))

\* C7: after Dxyn, VF is 1 if a pixel that was set before the cycle is unset after
\* it, and 0 if there is none.
CollisionFlag ==
    (opcode # -1 /\ IsDxyn(opcode) /\ fault = "none") =>
        registers[VF] = IF \E p \in pre.display : p \notin display THEN 1 ELSE 0

\* a draw has erased pixels, kept others and set new ones, on a VF that was 0
PartialCollision ==
    /\ opcode # -1 /\ IsDxyn(opcode) /\ fault = "none"
    /\ registers[VF] = 1
    /\ pre.registers[VF] = 0
    /\ \E p \in pre.display : p \notin display
    /\ \E p \in pre.display : p \in display
    /\ \E p \in display : p \notin pre.display

\* C8: from a blank display, a Dxyn of a sprite with a bit set leaves VF = 0, and the
\* same Dxyn again (same I, Vx, Vy) leaves VF = 1 and the display blank.
DrawTwiceRestores ==
    LET x == FieldX(opcode)
        y == FieldY(opcode)
        n == FieldN(opcode)
        nonzero(s) == \E r \in 0 .. (n - 1) : read_u8(s.memory, s.i + r) # 0
        drawn == opcode # -1 /\ IsDxyn(opcode) /\ n >= 1
    IN  /\ (drawn /\ pre.display = {} /\ pre.i + n <= MEMORY_LEN /\ nonzero(pre)) =>
               /\ fault = "none"
               /\ registers[VF] = 0
        /\ (drawn /\ pre.opcode = opcode /\ pre2.display = {}
               /\ pre2.i + n <= MEMORY_LEN /\ nonzero(pre2)
               /\ pre.i = pre2.i
               /\ pre.registers[x] = pre2.registers[x]
               /\ pre.registers[y] = pre2.registers[y]) =>
               /\ fault = "none"
               /\ registers[VF] = 1
               /\ display = {}

\* ------------------------------------------------------------------------
\* Jumps

\* 1nnn
JP(nnn) == 4096 + nnn

\* 2nnn
CALL(nnn) == 8192 + nnn

\* Fx15
LDDT(x) == 61440 + 256 * x + 21

\* Fx18
LDST(x) == 61440 + 256 * x + 24

\* The targets of the jumps: the first and the last addresses (000, 001, FFE, FFF),
\* the start of the program, the jump itself (20C), the word after it and one past
\* the program.
JumpTargets == { 0, 1, 512, 524, 526, 564, 4094, 4095 }

\* Jump programs: set V1, both timers and I, draw a row, call the next word and jump
\* from there, so that the jump finds no field of the Cpu at its initial value.
JumpPrograms ==
    { << LD(1, 7), LDDT(1), LDST(1), LDI(5), DRW(1, 1, 1), CALL(524), JP(nnn), LD(2, 9) >> :
        nnn \in JumpTargets }

InitJump == InitWith(JumpPrograms)

SpecJump == InitJump /\ [][Next]_vars

Is1nnn(op) == op \in 4096 .. 8191

\* C11: a cycle that runs 1nnn does not fault and leaves pc = nnn exactly (not
\* nnn + 2); the registers, I, the stack, the stack pointer, memory, the display and
\* both timers are as the cycle found them.
JumpSetsPC ==
    Is1nnn(opcode) =>
        /\ fault = "none"
        /\ pc = opcode % 4096
        /\ registers = pre.registers
        /\ i = pre.i
        /\ stack = pre.stack
        /\ sp = pre.sp
        /\ memory = pre.memory
        /\ display = pre.display
        /\ delay = pre.delay
        /\ sound = pre.sound

\* a jump to the last address of the 12 bits, taken inside a call with V1, I, the
\* timers and the display set
JumpToLastAddress ==
    /\ Is1nnn(opcode)
    /\ pc = 4095
    /\ pre.pc = 524
    /\ sp = 1
    /\ registers[1] = 7
    /\ i = 5
    /\ delay = 7
    /\ sound = 7
    /\ display # {}

\* ------------------------------------------------------------------------
\* Arithmetic on two registers

\* 8xyN
ALU(x, y, n) == 32768 + 256 * x + 16 * y + n

\* The registers 8xyN names: plain ones, x = F, y = F, x = y and both F.
AluRegisters == { << 1, 2 >>, << 15, 2 >>, << 1, 15 >>, << 1, 1 >>, << 15, 15 >> }

\* The values of Vx and Vy: 00, 01, 05, 80, FF.
AluValues == { 0, 1, 5, 128, 255 }

\* The operations of 8xyN in the table.
AluOperations == { 0, 1, 2, 3, 4, 5, 6, 7, 14 }

\* Arithmetic programs: set VF to 9, then Vx and Vy, and run one 8xyN on them.
AluPrograms ==
    { << LD(15, 9), LD(r[1], a), LD(r[2], b), ALU(r[1], r[2], n) >> :
        r \in AluRegisters, a \in AluValues, b \in AluValues, n \in AluOperations }

InitAlu == InitWith(AluPrograms)

SpecAlu == InitAlu /\ [][Next]_vars

\* the cycle has run the operation n of 8xyN
Is8xyN(op, n) == op \in 32768 .. 36862 /\ op % 16 = n

\* C12: after 8xy4 on a = Vx and b = Vy, VF is 1 if a + b > 255 and 0 otherwise, for
\* every x (x = F too), and for x # F, Vx = (a + b) mod 256.
AddSetsCarry ==
    Is8xyN(opcode, 4) =>
        LET x == FieldX(opcode)
            a == pre.registers[x]
            b == pre.registers[FieldY(opcode)]
        IN  /\ fault = "none"
            /\ registers[VF] = IF a + b > 255 THEN 1 ELSE 0
            /\ x # 15 => registers[x] = (a + b) % 256

\* 8F24 on VF = 255 and V2 = 5: the sum 4 has gone to VF and the carry has replaced it
AddIntoFlagRegister ==
    /\ Is8xyN(opcode, 4)
    /\ FieldX(opcode) = 15
    /\ FieldY(opcode) = 2
    /\ pre.registers[15] = 255
    /\ pre.registers[2] = 5
    /\ registers[VF] = 1

\* C13: after 8xy5 on a = Vx and b = Vy with x # F (y = F too), VF is 1 if a > b
\* and 0 otherwise, and Vx = (a - b) mod 256, with the Vy the cycle found.
SubSetsNoBorrow ==
    (Is8xyN(opcode, 5) /\ FieldX(opcode) # 15) =>
        LET x == FieldX(opcode)
            a == pre.registers[x]
            b == pre.registers[FieldY(opcode)]
        IN  /\ fault = "none"
            /\ registers[VF] = IF a > b THEN 1 ELSE 0
            /\ registers[x] = (a - b) % 256

\* C14: after 8xy7 on a = Vx and b = Vy with x # F and y # F, Vx = (b - a) mod 256
\* and VF is 1 if b > a and 0 otherwise, compared on the values the cycle found
\* (a = b gives VF = 0).
SubnSetsNoBorrow ==
    (Is8xyN(opcode, 7) /\ FieldX(opcode) # 15 /\ FieldY(opcode) # 15) =>
        LET x == FieldX(opcode)
            a == pre.registers[x]
            b == pre.registers[FieldY(opcode)]
        IN  /\ fault = "none"
            /\ registers[x] = (b - a) % 256
            /\ registers[VF] = IF b > a THEN 1 ELSE 0

\* C15: for a = Vx and x # F, 8xy6 leaves VF = a mod 2 and Vx = a div 2, and 8xyE
\* leaves VF = a div 128 and Vx = (2 * a) mod 256, whatever Vy is; Vy (a register
\* other than Vx and the flag VF) is as the cycle found it.
ShiftsUseVxOnly ==
    LET x == FieldX(opcode)
        y == FieldY(opcode)
        a == pre.registers[x]
    IN  /\ (Is8xyN(opcode, 6) /\ x # 15) =>
               /\ fault = "none"
               /\ registers[VF] = a % 2
               /\ registers[x] = a \div 2
               /\ y \notin {x, 15} => registers[y] = pre.registers[y]
        /\ (Is8xyN(opcode, 14) /\ x # 15) =>
               /\ fault = "none"
               /\ registers[VF] = a \div 128
               /\ registers[x] = (2 * a) % 256
               /\ y \notin {x, 15} => registers[y] = pre.registers[y]

\* 8126 has shifted V1 = 5 right to 2 with VF = 1, next to a V2 = 128 that would
\* have given 64 and VF = 0
ShiftRightBesideVy ==
    /\ Is8xyN(opcode, 6)
    /\ FieldX(opcode) = 1
    /\ FieldY(opcode) = 2
    /\ pre.registers[1] = 5
    /\ pre.registers[2] = 128
    /\ registers[1] = 2
    /\ registers[2] = 128
    /\ registers[VF] = 1

\* ------------------------------------------------------------------------
\* Random numbers

\* Cxkk
RND(x, kk) == 49152 + 256 * x + kk

\* The masks of Cxkk: FF and 0F.
RandomMasks == { 255, 15 }

\* Random programs: one Cxkk on V0 or on VF, and a 00E0 after it.
RandomPrograms == { << RND(x, kk), 224 >> : x \in {0, 15}, kk \in RandomMasks }

InitRandom == InitWith(RandomPrograms)

SpecRandom == InitRandom /\ [][Next]_vars

IsCxkk(op) == op \in 49152 .. 53247

\* the instruction the next cycle fetches
next_opcode == IF in_memory(pc) /\ in_memory(pc + 1) THEN fetch(memory, pc) ELSE -1

\* C16: when the next instruction is Cxkk, every r in 0..255 is a byte the cycle can
\* draw: for each r there is a cycle that leaves Vx = r AND kk, so that with
\* kk = FF every value 0..255 (255 too) can be the Vx after it.
RandomCoversByte ==
    (fault = "none" /\ IsCxkk(next_opcode)) =>
        \A r \in Byte :
            ENABLED (cycle /\ registers'[FieldX(next_opcode)] = bitand(r, FieldKK(next_opcode)))

\* ------------------------------------------------------------------------
\* The state after construction

\* The lengths of the program files: a few bytes, odd or even, and the two longest
\* that 0x200..0xFFF has room for.
LoadLengths == { 4, 5, 3583, 3584 }

\* The program file of n bytes that starts with the words and ends with a byte 01,
\* with 00 between.
Padded(words, n) ==
    [ k \in 1 .. n |-> IF k <= Len(program_bytes(words))
                       THEN program_bytes(words)[k]
                       ELSE IF k = n THEN 1 ELSE 0 ]

\* Load programs: set V1 and add to it, in files of each length.
LoadPrograms ==
    { Padded(<< LD(1, a), ADD(1, b) >>, n) : a \in 1 .. 3, b \in 1 .. 3, n \in LoadLengths }

InitLoad == InitFrom(LoadPrograms)

SpecLoad == InitLoad /\ [][Next]_vars

\* no cycle has run since construction
Constructed == opcode = -1 /\ pre.opcode = -1

\* C17: after construction and init with a program P of up to 3584 bytes, init has
\* not faulted, memory holds the font at 000..04F (glyph g at 5g..5g+4), P[i] at
\* 0x200 + i and 0 everywhere else, the registers, I, the stack, the stack pointer,
\* the timers and the pixels are 0, waiting-for-input is false and pc = 0x200.
InitialState ==
    (Constructed /\ Len(buffer) <= 3584) =>
        /\ fault = "none"
        /\ \A g \in 0 .. 15 : \A r \in 0 .. 4 : read_u8(memory, 5 * g + r) = font[5 * g + r + 1]
        /\ \A k \in 1 .. Len(buffer) : read_u8(memory, PROGRAM_START + k - 1) = buffer[k]
        /\ \A a \in 0 .. (MEMORY_LEN - 1) :
               (a >= 80 /\ a - PROGRAM_START \notin 0 .. (Len(buffer) - 1)) => read_u8(memory, a) = 0
        /\ registers = [r \in 0 .. 15 |-> 0]
        /\ i = 0
        /\ stack = [s \in 0 .. 15 |-> 0]
        /\ sp = 0
        /\ delay = 0
        /\ sound = 0
        /\ display = {}
        /\ waiting_for_input = FALSE
        /\ pc = 512

\* ------------------------------------------------------------------------
\* Additions to I

\* Fx1E
ADDI(x) == 61440 + 256 * x + 30

\* The values of I the additions start from: FF0 (241 additions of FF take I to FFFF),
\* FF1 (they take it to 10000) and FFF.
AddStarts == { 4080, 4081, 4095 }

\* Addition programs: set Vx to FF and I to a start, and add Vx to I MaxAdds times
\* in a row, for x = 0 and x = F.
AddPrograms ==
    { << LD(x, 255), LDI(nnn) >> \o [ k \in 1 .. MaxAdds |-> ADDI(x) ] :
        x \in {0, 15}, nnn \in AddStarts }

InitAdd == InitWith(AddPrograms)

SpecAdd == InitAdd /\ [][Next]_vars

\* the cycle has run the operation kk of Fxkk
IsFxkk(op, kk) == op \in 61447 .. 65381 /\ op % 256 = kk

\* C18: Fx1E does not fault and leaves I = (I + Vx) mod 2^16 for every I in
\* 0..FFFF, with VF and every other register as the cycle found them: additions that
\* take I past FFFF wrap and do not end the run.
AddToIWraps ==
    IsFxkk(opcode, 30) =>
        /\ fault = "none"
        /\ i = (pre.i + pre.registers[FieldX(opcode)]) % 65536
        /\ registers = pre.registers

\* ------------------------------------------------------------------------
\* Register dump and load

\* The values of I: the font (000), the program (200), free memory (300) and the
\* last addresses (FEF, FF0, FFC, FFD, FFE, FFF).
StoreStarts == { 0, 512, 768, 4079, 4080, 4092, 4093, 4094, 4095 }

\* The last register Fx55 and Fx65 name.
StoreRegisters == { 0, 1, 2, 15 }

\* A dump and a load in a row, with a change of V0 between them, and the other way
\* round.
StoreTails(x) ==
    { << STORE(x), LOAD(x) >>, << STORE(x), ADD(0, 1), LOAD(x) >>, << LOAD(x), STORE(x) >> }

\* Dump/load programs: set V0, V1, V2 and I and run a tail.
StorePrograms ==
    { << LD(0, 17), LD(1, 34), LD(2, 51), LDI(nnn) >> \o tail :
        nnn \in StoreStarts, tail \in UNION { StoreTails(x) : x \in StoreRegisters } }

InitStore == InitWith(StorePrograms)

SpecStore == InitStore /\ [][Next]_vars

\* C19: with I + x < 4096, Fx55 does not fault, leaves V0..Vx at memory[I..I+x] and
\* I, the registers and the rest of memory as the cycle found them; Fx65 does not
\* fault, leaves memory[I..I+x] in V0..Vx and the registers above x, I and memory as
\* the cycle found them; and an Fx65 right after an Fx55 with the same x leaves
\* every register as the Fx55 found it.
DumpLoadRoundTrip ==
    LET x == FieldX(opcode)
    IN  /\ (IsFxkk(opcode, 85) /\ pre.i + x < 4096) =>
               /\ fault = "none"
               /\ \A r \in 0 .. x : read_u8(memory, pre.i + r) = pre.registers[r]
               /\ \A a \in (0 .. 4095) \ (pre.i .. (pre.i + x)) :
                      read_u8(memory, a) = read_u8(pre.memory, a)
               /\ i = pre.i
               /\ registers = pre.registers
        /\ (IsFxkk(opcode, 101) /\ pre.i + x < 4096) =>
               /\ fault = "none"
               /\ \A r \in 0 .. x : registers[r] = read_u8(pre.memory, pre.i + r)
               /\ \A r \in (x + 1) .. 15 : registers[r] = pre.registers[r]
               /\ i = pre.i
               /\ memory = pre.memory
        /\ (IsFxkk(opcode, 101) /\ IsFxkk(pre.opcode, 85) /\ FieldX(pre.opcode) = x
                /\ pre2.i + x < 4096) =>
               /\ fault = "none"
               /\ registers = pre2.registers

\* ------------------------------------------------------------------------
\* The advance of pc

IsBnnn(op) == Family(op) = 11

\* C20: a cycle that does not fault and runs an instruction other than 1nnn, 2nnn,
\* 00EE, Bnnn and a skip whose condition holds leaves pc 2 past the address it
\* fetched from; and the instruction a cycle runs is the big-endian 16-bit word at
\* the pc it found.
DefaultAdvance ==
    /\ (opcode # -1 /\ fault = "none"
            /\ ~Is1nnn(opcode) /\ ~Is2nnn(opcode) /\ ~Is00EE(opcode) /\ ~IsBnnn(opcode)
            /\ ~(IsSkip(opcode) /\ SkipCondition(opcode))) =>
           pc = pre.pc + 2
    /\ opcode # -1 =>
           opcode = 256 * read_u8(pre.memory, pre.pc) + read_u8(pre.memory, pre.pc + 1)

\* ------------------------------------------------------------------------
\* The flag register

\* C21: after 8xy4, 8xy5, 8xy6, 8xy7 or 8xyE, for every x and y (F too), the cycle
\* has not faulted and VF holds 0 or 1: the flag, never an arithmetic result
\* written over it.
FlagIsZeroOrOne ==
    (\E n \in {4, 5, 6, 7, 14} : Is8xyN(opcode, n)) =>
        /\ fault = "none"
        /\ registers[VF] \in {0, 1}

\* ------------------------------------------------------------------------
\* Timers

\* Fx07
LDVDT(x) == 61440 + 256 * x + 7

\* One instruction of each arm of decode_and_execute: 00E0, 00EE, 120A, 220A, 3107,
\* 4107, 5120, 6305, 7105, 8120..8127 and 812E, 9120, A005, B20A, C301, D121, E19E,
\* E1A1, F307, F10A, F215, F118, F11E, F129, F133, F155, F165, and the words 0000,
\* 5121, 8128, E100 and F10B that are outside the table.
TimerOps ==
    { 224, 238, JP(522), CALL(522), SE(1, 7), 16647, 20768, LD(3, 5), ADD(1, 5),
      37152, LDI(5), 45578, RND(3, 1), DRW(1, 2, 1), 57758, 57761, LDVDT(3), 61706,
      LDDT(2), LDST(1), ADDI(1), 61737, 61747, STORE(1), LOAD(1),
      0, 20769, 33064, 57600, 61707 }
        \cup { ALU(1, 2, n) : n \in AluOperations }

\* The instruction that follows: F307, F215, F118, 00E0.
TimerFollowOps == { LDVDT(3), LDDT(2), LDST(1), 224 }

\* Timer programs: set V1 = 7 and V2 = 9, the delay timer to 7 and the sound timer to
\* 9, and run two instructions.
TimerPrograms ==
    { << LD(1, 7), LD(2, 9), LDDT(1), LDST(2), op1, op2 >> :
        op1 \in TimerOps, op2 \in TimerFollowOps }

InitTimer == InitWith(TimerPrograms)

SpecTimer == InitTimer /\ [][Next]_vars

\* C22: the delay timer changes only in a cycle that runs Fx15, to the Vx it found,
\* and the sound timer only in a cycle that runs Fx18, to the Vx it found; Fx07
\* copies the delay timer to Vx and leaves it alone; no cycle counts a timer down.
TimersChangeOnlyByLoad ==
    LET x == FieldX(opcode)
    IN  /\ IF opcode # -1 /\ IsFxkk(opcode, 21)
           THEN fault = "none" /\ delay = pre.registers[x]
           ELSE delay = pre.delay
        /\ IF opcode # -1 /\ IsFxkk(opcode, 24)
           THEN fault = "none" /\ sound = pre.registers[x]
           ELSE sound = pre.sound
        /\ (opcode # -1 /\ IsFxkk(opcode, 7)) =>
               /\ fault = "none"
               /\ registers[x] = pre.delay
               /\ delay = pre.delay

\* F307 has copied a delay timer of 7 into V3 next to a sound timer of 9, after an
\* addition to V1
DelayReadAfterLoad ==
    /\ opcode = LDVDT(3)
    /\ pre.opcode = ADD(1, 5)
    /\ pre.delay = 7
    /\ registers[3] = 7
    /\ delay = 7
    /\ sound = 9

\* ------------------------------------------------------------------------
\* Keys out of range

\* Ex9E
SKP(x) == 57344 + 256 * x + 158

\* ExA1
SKNP(x) == 57344 + 256 * x + 161

\* The values of Vx: keys (01, 0F), the first value that is no key (10), one whose
\* low 4 bits name the key the collaborator presses (11), and FF.
KeyValues == { 1, 15, 16, 17, 255 }

\* Key programs: set Vx (x = 1 or x = F), run a skip on the key Vx names and two
\* loads of V0 after it.
KeyPrograms ==
    { << LD(x, v), op, LD(0, 5), LD(0, 6) >> :
        x \in {1, 15}, v \in KeyValues, op \in {SKP(1), SKNP(1), SKP(15), SKNP(15)} }

InitKey == InitWith(KeyPrograms)

SpecKey == InitKey /\ [][Next]_vars

IsExkk(op, kk) == Family(op) = 14 /\ FieldKK(op) = kk

\* C23: a cycle that runs Ex9E or ExA1 on a Vx greater than 15 ends in the fault of
\* the key index out of range: Vx is not masked to its low 4 bits nor taken for a
\* key that is not pressed, and pc is 2 past the fetch, not advanced by a skip.
KeyOutOfRangeFaults ==
    ((IsExkk(opcode, 158) \/ IsExkk(opcode, 161)) /\ pre.registers[FieldX(opcode)] > 15) =>
        /\ fault = "keys index out of bounds"
        /\ pc = pre.pc + 2
        /\ registers = pre.registers

\* E1A1 has faulted on V1 = 11 while key 1, which its low 4 bits name, was pressed
SkipOnKeySeventeen ==
    /\ opcode = SKNP(1)
    /\ pre.registers[1] = 17
    /\ pre.keys[1]
    /\ fault = "keys index out of bounds"
    /\ pc = pre.pc + 2

====
